---- MODULE Spec2Model ----
(***************************************************************************)
(* hue26: the SceneList controller of the terminal client (state kept by   *)
(* the React component, its keyboard handler, its asynchronous handlers)   *)
(* against a model of the bridge it talks to.                              *)
(*                                                                         *)
(* Brightness values are JavaScript numbers; they are kept here as exact   *)
(* fractions <<numerator, denominator>> in lowest terms, so that the       *)
(* average over the powered-on lights is not rounded.                      *)
(***************************************************************************)
EXTENDS Integers, Sequences, FiniteSets, Bags, TLC

\* ------------------------------------------------------------------ bounds
\* key presses handled in one run
MaxKeys == 3
\* asynchronous handlers (doActivate, doSetBrightness, toggleAllLights) in flight at once
MaxTasks == 2
\* entries of palette.color, of palette.color_temperature and of actions in a
\* scene handed to the map callbacks
MaxPalette == 1
MaxTemperatures == 1
MaxActions == 3
\* lines of the .env file the setup script finds
MaxLines == 3
\* calls of updateEnvFile followed in one run
MaxWrites == 2

\* --------------------------------------------------------------- fractions
RECURSIVE GCD(_, _)
GCD(a, b) == IF b = 0 THEN a ELSE GCD(b, a % b)

Abs(n) == IF n < 0 THEN -n ELSE n

\* n/d in lowest terms, d > 0
Rat(n, d) == LET g == GCD(Abs(n), d) IN <<n \div g, d \div g>>

Num(n) == <<n, 1>>

RatAdd(a, b) == Rat(a[1] * b[2] + b[1] * a[2], a[2] * b[2])

RatDiv(a, k) == Rat(a[1], a[2] * k)

RatLeq(a, b) == a[1] * b[2] <= b[1] * a[2]

\* Math.max / Math.min
MathMax(a, b) == IF RatLeq(a, b) THEN b ELSE a

MathMin(a, b) == IF RatLeq(a, b) THEN a ELSE b

\* ------------------------------------------------------------- bridge data
\* a light resource as the bridge lists it: on.on, and dimming.brightness
\* when the light has a dimming field (dim)
Light(id, on, dim, bri) == [id |-> id, on |-> on, dim |-> dim, bri |-> bri]

\* the states a light of the bridge starts in
OnLow(id) == Light(id, TRUE, TRUE, Num(2))

OnPlain(id) == Light(id, TRUE, FALSE, Num(0))

\* the light collections the bridge starts with: two lights on (one of them
\* without a dimming field), and a single dimmed light
LightRosters ==
    {<<OnLow("l1"), OnPlain("l2")>>, <<OnLow("l1")>>}

\* an optional field of a resource: <<>> when it is missing (undefined, so
\* not of type number), <<v>> when it is the number v
None == <<>>

Some(v) == <<v>>

\* one colour entry of a scene resource: color.xy.x and color.xy.y (in
\* 1/10000), dimming.brightness (in 1/10), color_temperature.mirek, each
\* optional
Sample(x, y, bri, mirek) == [x |-> x, y |-> y, bri |-> bri, mirek |-> mirek]

XY(x, y, bri) == Sample(Some(x), Some(y), bri, None)

Mirek(m) == Sample(None, None, None, Some(m))

\* a raw scene resource: id, metadata.name ("" when the name is missing),
\* palette.color, palette.color_temperature and actions (empty when missing)
RawScene(id, name, color, temperature, actions) ==
    [id |-> id, name |-> name,
     palette |-> [color |-> color, color_temperature |-> temperature],
     actions |-> actions]

\* the scenes of the bridge: one with a repeated palette colour, a palette
\* temperature and actions; one with actions only, one of them with y = 0;
\* one with no name and no colour data
Evening ==
    RawScene("s1", "Evening",
             <<XY(5000, 4000, None), XY(5000, 4000, None)>>,
             <<Mirek(500)>>,
             <<XY(6750, 3220, Some(1000)), Mirek(500), Mirek(0)>>)

Bright ==
    RawScene("s2", "Bright", <<>>, <<>>,
             <<XY(3127, 3290, Some(2540)), Mirek(153), XY(3127, 0, None)>>)

Unnamed == RawScene("s3", "", <<>>, <<>>, <<>>)

Dawn == RawScene("m1", "Dawn", <<>>, <<>>, <<>>)

\* the scene collections the bridge may return, in the order it returns them
Catalogue == {Evening, Bright, Unnamed}

SceneLists ==
    LET cat == Catalogue
    IN  {<<>>} \cup {<<a>> : a \in cat}
        \cup {p \in {<<a, b>> : a \in cat, b \in cat} : p[1] # p[2]}

SmartSceneLists == {<<>>, <<Dawn>>}

\* the bridges a run starts against: every scene collection on a bridge
\* without lights, and every light collection on a bridge with two scenes
\* and a smart scene
Setup(sc, sm, ls) == [scenes |-> sc, smart |-> sm, lights |-> ls]

BridgeSetups ==
    {Setup(sc, sm, <<>>) : sc \in SceneLists, sm \in SmartSceneLists}
    \cup {Setup(<<Evening, Bright>>, <<Dawn>>, ls) : ls \in LightRosters}

\* what a recalled scene does to every light: power, and brightness when on
RecallEffects == {[on |-> TRUE, bri |-> Num(40)], [on |-> FALSE, bri |-> Num(0)]}

\* all sequences over S of length at most n
SeqsUpTo(S, n) == UNION {[1..k -> S] : k \in 0..n}

\* the colour entries scene resources are made of: a palette colour, one that
\* converts to the grey of the fallback, and one with y = 0
PaletteColorSamples == {XY(5000, 4000, None), XY(3229, 3293, Some(147)), XY(3127, 0, None)}

PaletteTemperatureSamples == {Mirek(500), Mirek(0)}

\* actions with a colour and a temperature, with a temperature only, with
\* neither
ActionSamples ==
    {Sample(Some(6750), Some(3220), Some(1000), Some(153)),
     Sample(Some(4000), Some(5000), None, Some(1000)),
     Sample(Some(5000), Some(4000), None, Some(5)),
     Mirek(500),
     Sample(None, None, None, None)}

\* the scene resources the map callbacks of the load are applied to
SceneInputs ==
    {RawScene("s9", "Evening", pc, pt, ac) :
        pc \in SeqsUpTo(PaletteColorSamples, MaxPalette),
        pt \in SeqsUpTo(PaletteTemperatureSamples, MaxTemperatures),
        ac \in SeqsUpTo(ActionSamples, MaxActions)}

\* ------------------------------------------------------------ colorimetry
\* a colour string is kept as the sequence of its characters; null is <<>>
NoColor == <<>>

HexDigits == <<"0", "1", "2", "3", "4", "5", "6", "7", "8", "9", "a", "b", "c", "d", "e", "f">>

\* n.toString(16).padStart(2, "0") for 0 <= n <= 255
toHex(n) == <<HexDigits[(n \div 16) + 1], HexDigits[(n % 16) + 1]>>

\* "#" followed by the three channels
HexColor(rgb) == <<"#">> \o toHex(rgb[1]) \o toHex(rgb[2]) \o toHex(rgb[3])

\* Math.round(v * 255) of the three channels after the matrix, the gamma
\* function and the clamp, evaluated in double precision for the samples
\* that occur (x and y in 1/10000, bri in 1/10)
GammaRGB(x, y, bri) ==
    CASE <<x, y, bri>> = <<3127, 3290, 2540>> -> <<248, 255, 255>>
      [] <<x, y, bri>> = <<3127, 3290, 1000>> -> <<164, 170, 171>>
      [] <<x, y, bri>> = <<6750, 3220, 2540>> -> <<255, 116, 0>>
      [] <<x, y, bri>> = <<6750, 3220, 1000>> -> <<255, 74, 0>>
      [] <<x, y, bri>> = <<5000, 4000, 2540>> -> <<255, 229, 122>>
      [] <<x, y, bri>> = <<4000, 5000, 2540>> -> <<246, 255, 98>>
      [] <<x, y, bri>> = <<3229, 3293, 147>> -> <<68, 68, 68>>

xyBriToHex(x, y, bri) ==
    IF x = None \/ y = None \/ y = Some(0) THEN NoColor
    ELSE HexColor(GammaRGB(x[1], y[1], IF bri = None THEN 2540 ELSE bri[1]))

\* the clamped, rounded channels of the black-body approximation, evaluated
\* in double precision for the mirek values that occur; temp = 10000 / mirek
GreenWarm(mirek) == CASE mirek = 153 -> 255 [] mirek = 500 -> 137 [] mirek = 1000 -> 68

BlueWarm(mirek) == CASE mirek = 153 -> 251 [] mirek = 500 -> 14

RedCool(mirek) == CASE mirek = 5 -> 120

GreenCool(mirek) == CASE mirek = 5 -> 163

mirekToHex(mirek) ==
    IF mirek = None \/ mirek[1] <= 0 THEN NoColor
    ELSE LET m == mirek[1]
         IN  IF 10000 <= 66 * m
             THEN HexColor(<<255, GreenWarm(m), IF 10000 <= 19 * m THEN 0 ELSE BlueWarm(m)>>)
             ELSE HexColor(<<RedCool(m), GreenCool(m), 255>>)

\* ------------------------------------------------------- color extraction
\* String.prototype.toLowerCase on the characters a colour string can hold
LowerChar(c) ==
    CASE c = "A" -> "a" [] c = "B" -> "b" [] c = "C" -> "c"
      [] c = "D" -> "d" [] c = "E" -> "e" [] c = "F" -> "f" [] OTHER -> c

toLowerCase(color) == [i \in 1..Len(color) |-> LowerChar(color[i])]

\* the default of dedupeColors' limit parameter
DefaultLimit == 6

\* the for loop of dedupeColors over the colours not yet visited
RECURSIVE DedupeLoop(_, _, _, _)
DedupeLoop(colors, seen, out, limit) ==
    IF colors = <<>> THEN out
    ELSE LET color == Head(colors)
             key == toLowerCase(color)
         IN  IF color = NoColor \/ key \in seen
             THEN DedupeLoop(Tail(colors), seen, out, limit)
             ELSE IF Len(out) + 1 >= limit
             THEN Append(out, color)
             ELSE DedupeLoop(Tail(colors), seen \cup {key}, Append(out, color), limit)

\* dedupeColors without the break at the limit
dedupeColors_noLimit(colors, limit) == DedupeLoop(colors, {}, <<>>, Len(colors) + 1)

dedupeColors(colors, limit) == DedupeLoop(colors, {}, <<>>, limit)

\* a fallback other than ["#444444"]
Fallback_white == <<<<"#", "f", "f", "f", "f", "f", "f">>>>

Fallback == <<<<"#", "4", "4", "4", "4", "4", "4">>>>

extractColors(scene) ==
    LET paletteColors ==
            [i \in 1..Len(scene.palette.color) |->
                xyBriToHex(scene.palette.color[i].x, scene.palette.color[i].y,
                           scene.palette.color[i].bri)]
        paletteTemperatures ==
            [i \in 1..Len(scene.palette.color_temperature) |->
                mirekToHex(scene.palette.color_temperature[i].mirek)]
        actionColors ==
            [i \in 1..Len(scene.actions) |->
                xyBriToHex(scene.actions[i].x, scene.actions[i].y, scene.actions[i].bri)]
        actionTemperatures ==
            [i \in 1..Len(scene.actions) |-> mirekToHex(scene.actions[i].mirek)]
        combined == paletteColors \o paletteTemperatures \o actionColors \o actionTemperatures
        deduped == dedupeColors(combined, DefaultLimit)
    IN  IF Len(deduped) # 0 THEN deduped ELSE Fallback

\* ----------------------------------------------------------------- scenes
\* String.prototype.localeCompare on the display names that occur: their
\* place in the locale's collation order
CollationOrder == <<"Bright", "Dawn", "Evening", "Untitled">>

CollationKey(name) == CHOOSE i \in 1..Len(CollationOrder) : CollationOrder[i] = name

localeCompare(a, b) == CollationKey(a) - CollationKey(b)

\* scene.metadata?.name || "Untitled"
DisplayName(raw) == IF raw.name = "" THEN "Untitled" ELSE raw.name

\* extractColors(scene) of every scene that occurs
ColorsOf == [raw \in Catalogue \cup SceneInputs |-> extractColors(raw)]

\* the list entry built for a regular scene and for a smart scene
RegularScene(raw) ==
    [id |-> raw.id, name |-> DisplayName(raw), colors |-> ColorsOf[raw], type |-> "scene"]

\* ["#6366f1", "#8b5cf6"]
Placeholder ==
    <<<<"#", "6", "3", "6", "6", "f", "1">>, <<"#", "8", "b", "5", "c", "f", "6">>>>

SmartScene(raw) ==
    [id |-> raw.id, name |-> DisplayName(raw), colors |-> Placeholder, type |-> "smart_scene"]

\* sceneData.data.map(...) and smartSceneData.data.map(...)
RegularScenes(list) == [i \in 1..Len(list) |-> RegularScene(list[i])]

SmartScenes(list) == [i \in 1..Len(list) |-> SmartScene(list[i])]

\* Array.prototype.sort with the comparator a.name.localeCompare(b.name):
\* a stable sort, here by insertion after the last entry that is not greater
InsertByName(sorted, sc) ==
    LET k == Cardinality({i \in 1..Len(sorted) : localeCompare(sorted[i].name, sc.name) <= 0})
    IN  SubSeq(sorted, 1, k) \o <<sc>> \o SubSeq(sorted, k + 1, Len(sorted))

RECURSIVE SortFrom(_, _)
SortFrom(sorted, rest) ==
    IF rest = <<>> THEN sorted
    ELSE SortFrom(InsertByName(sorted, Head(rest)), Tail(rest))

\* allScenes left in the order it was built in
SortByName_unsorted(list) == list

SortByName(list) == SortFrom(<<>>, list)

\* allScenes of the initial load: regular scenes, then smart scenes, sorted
AllScenes(sceneList, smartList) ==
    SortByName(RegularScenes(sceneList) \o SmartScenes(smartList))

\* ----------------------------------------------------- derived light state
\* lightsArray.some((l) => l.on?.on)
AnyOn(ls) == \E i \in 1..Len(ls) : ls[i].on

IsOn(l) == l.on

\* l.dimming?.brightness ?? 100
BrightnessOf(l) == IF l.dim THEN l.bri ELSE Num(100)

RECURSIVE SumBrightness(_)
SumBrightness(ls) ==
    IF ls = <<>> THEN Num(0)
    ELSE RatAdd(BrightnessOf(Head(ls)), SumBrightness(Tail(ls)))

\* the value handed to setLightsOn after a light listing, or the old value
LightsOnAfter(ls, old) == IF Len(ls) > 0 THEN AnyOn(ls) ELSE old

\* BrightnessAfter of a refresh that leaves the brightness alone
BrightnessAfter_keepsOld(ls, old) == old

\* the value handed to setBrightness after a light listing, or the old value
BrightnessAfter(ls, old) ==
    LET onLights == SelectSeq(ls, IsOn)
    IN  IF Len(ls) > 0 /\ Len(onLights) > 0
        THEN RatDiv(SumBrightness(onLights), Len(onLights))
        ELSE old

\* ------------------------------------------------------------------- state
VARIABLES
    sceneData,        \* what the bridge returns for /resource/scene
    smartSceneData,   \* what the bridge returns for /resource/smart_scene
    bridgeLights,     \* the bridge's light resources, as it would list them now
    fetches,          \* the three fetches of the initial load: pending, ok, http, net
    lightData,        \* the light listing the initial load has received
    scenes, loading, error, selected, message,
    setMode, brightnessMode, brightness, lights, lightsOn,
    tasks,            \* the asynchronous handlers in flight (a bag)
    timers,           \* pending setTimeout(() => setMessage(""), 2000) callbacks
    exited,           \* exit() was called
    keys,             \* key presses handled so far
    sceneArg,         \* the scene resource a map callback of the load is applied to
    mapped,           \* what the map has returned (<<>> before it has run)
    mainPc,           \* setup.js: where main() stands
    bridgeIp,         \* setup.js: the address discoverBridge returned
    attempts,         \* setup.js: attempts of the pairing loop
    username,         \* setup.js: username of the pairing loop
    authCalls,        \* setup.js: authenticate requests sent so far
    envFile,          \* the .env file: whether it exists, and its content
    envCalls          \* the arguments of the calls of updateEnvFile so far

uiVars == <<scenes, loading, error, selected, message, setMode, brightnessMode,
            brightness, lights, lightsOn>>

bridgeVars == <<sceneData, smartSceneData, bridgeLights>>

\* the variables of the SceneList component and of its bridge
appVars == <<sceneData, smartSceneData, bridgeLights, fetches, lightData,
             scenes, loading, error, selected, message, setMode, brightnessMode,
             brightness, lights, lightsOn, tasks, timers, exited, keys>>

\* the variables of one application of a map callback
mapVars == <<sceneArg, mapped>>

\* the variables of the setup script
setupVars == <<mainPc, bridgeIp, attempts, username, authCalls, envFile, envCalls>>

\* the variables the SceneList component has no part in
otherVars == <<mapVars, setupVars>>

vars == <<appVars, otherVars>>

NoError == "null"

\* err.message of a failed call: a non-2xx answer, or a transport error
ErrorText(outcome) == IF outcome = "http" THEN "HTTP 500: error" ELSE "fetch failed"

\* no map callback is being followed
MapIdle == sceneArg = Unnamed /\ mapped = <<>>

\* useState initial values against the bridge b; the effect has started the
\* three fetches
Mounted(b) ==
    /\ sceneData = b.scenes
    /\ smartSceneData = b.smart
    /\ bridgeLights = b.lights
    /\ fetches = [f \in {"scene", "smart_scene", "light"} |-> "pending"]
    /\ lightData = <<>>
    /\ scenes = <<>>
    /\ loading = TRUE
    /\ error = NoError
    /\ selected = 0
    /\ message = ""
    /\ setMode = FALSE
    /\ brightnessMode = FALSE
    /\ brightness = Num(100)
    /\ lights = <<>>
    /\ lightsOn = FALSE
    /\ tasks = EmptyBag
    /\ timers = 0
    /\ exited = FALSE
    /\ keys = 0

\* let username = null
NoUsername == "null"

\* a file that does not exist
NoFile == [exists |-> FALSE, content |-> <<>>]

\* the setup script is not running
SetupIdle ==
    /\ mainPc = "idle" /\ bridgeIp = "" /\ attempts = 0 /\ username = NoUsername
    /\ authCalls = 0 /\ envFile = NoFile /\ envCalls = <<>>

Init == (\E b \in BridgeSetups : Mounted(b)) /\ MapIdle /\ SetupIdle

\* ------------------------------------------------------------ initial load
\* the try block once Promise.all has resolved
LoadResolved(lightsArray) ==
    /\ scenes' = AllScenes(sceneData, IF fetches'["smart_scene"] = "ok" THEN smartSceneData ELSE <<>>)
    /\ lights' = lightsArray
    /\ lightsOn' = LightsOnAfter(lightsArray, lightsOn)
    /\ brightness' = BrightnessAfter(lightsArray, brightness)
    /\ error' = error

\* the catch block once Promise.all has rejected
LoadRejected(outcome) ==
    /\ error' = ErrorText(outcome)
    /\ UNCHANGED <<scenes, lights, lightsOn, brightness>>

\* a failed smart-scene fetch rejects Promise.all too (no .catch on it)
Rejects_withoutCatch(f, outcome) == outcome # "ok"

\* whether a settled fetch rejects Promise.all: the smart-scene fetch carries
\* .catch(() => ({ data: [] })) and never does
Rejects(f, outcome) == f # "smart_scene" /\ outcome # "ok"

\* one of the three fetches settles; when that settles Promise.all, the rest
\* of the effect (try or catch, then finally) runs
FetchSettle(f, outcome) ==
    /\ ~exited
    /\ loading
    /\ fetches[f] = "pending"
    /\ fetches' = [fetches EXCEPT ![f] = outcome]
    /\ LET received == IF f = "light" /\ outcome = "ok" THEN bridgeLights ELSE lightData
       IN  IF Rejects(f, outcome)
           THEN LoadRejected(outcome) /\ loading' = FALSE /\ lightData' = <<>>
           ELSE IF \A g \in DOMAIN fetches : fetches'[g] # "pending"
                THEN LoadResolved(received) /\ loading' = FALSE /\ lightData' = <<>>
                ELSE /\ lightData' = received
                     /\ UNCHANGED <<scenes, lights, lightsOn, brightness, error, loading>>
    /\ UNCHANGED <<selected, message, setMode, brightnessMode, tasks, timers, exited, keys>>
    /\ UNCHANGED bridgeVars
    /\ UNCHANGED otherVars

\* --------------------------------------------------- asynchronous handlers
\* one PUT of a Promise.all over the roster: the light it goes to, and
\* whether it is still in flight
Call(id) == [id |-> id, st |-> "pending"]

CallsFor(roster) == [i \in 1..Len(roster) |-> Call(roster[i].id)]

AllDone(calls) == \A i \in 1..Len(calls) : calls[i].st = "done"

\* activateScene: the resource type and the recall action of the request
activateScene(sceneId, sceneType) ==
    [id |-> sceneId,
     resourceType |-> IF sceneType = "smart_scene" THEN "smart_scene" ELSE "scene",
     action |-> IF sceneType = "smart_scene" THEN "activate" ELSE "active"]

NoRequest == [id |-> "", resourceType |-> "", action |-> ""]

\* a handler in flight. pc: recall (the activation PUT is in flight), settle
\* (the 200 ms wait), reload (the light listing is in flight), puts (the
\* per-light PUTs are in flight), abandoned (Promise.all has rejected, PUTs
\* already sent are still on their way)
Task(kind, pc, request, level, target, calls) ==
    [kind |-> kind, pc |-> pc, request |-> request, level |-> level,
     target |-> target, calls |-> calls]

Started(t) == tasks (+) SetToBag({t})

Finished(t) == tasks (-) SetToBag({t})

Replaced(t, u) == (tasks (-) SetToBag({t})) (+) SetToBag({u})

InFlight == BagToSet(tasks)

CanStart == BagCardinality(tasks) < MaxTasks

\* the handler doActivate starts for a scene: its request is in flight
Activation(scene) ==
    Task("activate", "recall", activateScene(scene.id, scene.type), Num(0), FALSE, <<>>)

\* doActivate(scene), up to the first await: setMessage(""), the request is sent
doActivate(scene) ==
    /\ CanStart
    /\ message' = ""
    /\ tasks' = Started(Activation(scene))

\* clampedLevel without the lower bound
clampedLevel_noFloor(level) == MathMin(Num(100), level)

\* Math.max(1, Math.min(100, level))
clampedLevel(level) == MathMax(Num(1), MathMin(Num(100), level))

\* doSetBrightness without setBrightness(clampedLevel) before the calls
doSetBrightness_notOptimistic(level) ==
    /\ brightness' = brightness
    /\ IF lights = <<>>
       THEN tasks' = tasks
       ELSE /\ CanStart
            /\ tasks' = Started(Task("bright", "puts", NoRequest, clampedLevel(level),
                                     FALSE, CallsFor(lights)))

\* doSetBrightness(level), up to the await: setBrightness, one PUT per light of
\* the roster; over an empty roster Promise.all resolves at once
doSetBrightness(level) ==
    /\ brightness' = clampedLevel(level)
    /\ IF lights = <<>>
       THEN tasks' = tasks
       ELSE /\ CanStart
            /\ tasks' = Started(Task("bright", "puts", NoRequest, clampedLevel(level),
                                     FALSE, CallsFor(lights)))

\* targetState without the negation
targetState_notNegated(roster) == AnyOn(roster)

\* const targetState = !anyLightsOn
targetState(roster) == ~AnyOn(roster)

\* toggleAllLights(), up to the first await: one PUT per light of the roster;
\* over an empty roster Promise.all resolves at once and the listing is requested
toggleAllLights ==
    /\ CanStart
    /\ tasks' = Started(Task("toggle", IF lights = <<>> THEN "reload" ELSE "puts",
                             NoRequest, Num(0), targetState(lights), CallsFor(lights)))

\* ------------------------------------------------------------ key handler
Inputs == {"q", "escape", "s", "S", "b", "B", "o", "O", "upArrow", "downArrow", "return"}

\* scenes[i] of the zero-based list, when there is one
HasScene(i) == i + 1 \in DOMAIN scenes

\* downIdx without the Math.min
downIdx_unclamped == selected + 1

\* Math.min(selected + 1, Math.max(0, scenes.length - 1))
downIdx == IF selected + 1 <= (IF Len(scenes) - 1 >= 0 THEN Len(scenes) - 1 ELSE 0)
           THEN selected + 1
           ELSE (IF Len(scenes) - 1 >= 0 THEN Len(scenes) - 1 ELSE 0)

\* Math.max(selected - 1, 0)
upIdx == IF selected - 1 >= 0 THEN selected - 1 ELSE 0

\* moveTo that hands doActivate the scene under the cursor before the move
moveTo_staleIndex(newIdx) ==
    /\ selected' = newIdx
    /\ IF setMode /\ HasScene(selected)
       THEN doActivate(scenes[selected + 1])
       ELSE UNCHANGED <<message, tasks>>

\* setSelected(newIdx); if (setMode && scenes[newIdx]) doActivate(scenes[newIdx])
moveTo(newIdx) ==
    /\ selected' = newIdx
    /\ IF setMode /\ HasScene(newIdx)
       THEN doActivate(scenes[newIdx + 1])
       ELSE UNCHANGED <<message, tasks>>

\* if (key.escape || input === "q") { exit(); return; }
pressQuit ==
    /\ exited' = TRUE
    /\ UNCHANGED <<setMode, brightnessMode, selected, brightness, message, tasks>>

\* pressS without setBrightnessMode(false)
pressS_keepsBrightnessMode ==
    /\ setMode' = ~setMode
    /\ UNCHANGED <<brightnessMode, exited, selected, brightness, message, tasks>>

\* setSetMode((m) => !m); setBrightnessMode(false)
pressS ==
    /\ setMode' = ~setMode
    /\ brightnessMode' = FALSE
    /\ UNCHANGED <<exited, selected, brightness, message, tasks>>

\* setBrightnessMode((m) => !m); setSetMode(false)
pressB ==
    /\ brightnessMode' = ~brightnessMode
    /\ setMode' = FALSE
    /\ UNCHANGED <<exited, selected, brightness, message, tasks>>

\* toggleAllLights()
pressO ==
    /\ toggleAllLights
    /\ UNCHANGED <<exited, setMode, brightnessMode, selected, brightness, message>>

\* if (brightnessMode) { up: doSetBrightness(brightness + 1), down:
\* doSetBrightness(brightness - 1); return; }  Any other key ends here too
pressInBrightnessMode(input) ==
    /\ IF input = "upArrow"
       THEN doSetBrightness(RatAdd(brightness, Num(1)))
       ELSE IF input = "downArrow"
       THEN doSetBrightness(RatAdd(brightness, Num(-1)))
       ELSE UNCHANGED <<brightness, tasks>>
    /\ UNCHANGED <<exited, setMode, brightnessMode, selected, message>>

\* the arrow keys outside brightness mode
pressArrow(input) ==
    /\ moveTo(IF input = "downArrow" THEN downIdx ELSE upIdx)
    /\ UNCHANGED <<exited, setMode, brightnessMode, brightness>>

\* else if (key.return && scenes.length) doActivate(scenes[selected]);
\* doActivate returns at once when handed no scene
pressReturn ==
    /\ IF HasScene(selected)
       THEN doActivate(scenes[selected + 1])
       ELSE UNCHANGED <<message, tasks>>
    /\ UNCHANGED <<exited, setMode, brightnessMode, selected, brightness>>

\* the useInput callback, branch by branch in the order of the code. It is
\* registered for as long as the component is mounted, loading or not, with
\* an error or not
useInput(input) ==
    /\ ~exited
    /\ keys < MaxKeys
    /\ keys' = keys + 1
    /\ IF input \in {"escape", "q"} THEN pressQuit
       ELSE IF input \in {"s", "S"} THEN pressS
       ELSE IF input \in {"b", "B"} THEN pressB
       ELSE IF input \in {"o", "O"} THEN pressO
       ELSE IF brightnessMode THEN pressInBrightnessMode(input)
       ELSE IF input \in {"downArrow", "upArrow"} THEN pressArrow(input)
       ELSE IF input = "return" /\ Len(scenes) # 0 THEN pressReturn
       ELSE UNCHANGED <<exited, setMode, brightnessMode, selected, brightness, message, tasks>>
    /\ UNCHANGED <<scenes, loading, error, lights, lightsOn, timers, fetches, lightData>>
    /\ UNCHANGED bridgeVars
    /\ UNCHANGED otherVars

\* ---------------------------------------------------------------- bridge
\* the bridge recalls a scene: every light takes the scene's power, and its
\* brightness when the scene turns it on and the light can dim
Recalled(ls, eff) ==
    [i \in 1..Len(ls) |->
        [ls[i] EXCEPT !.on = eff.on,
                      !.bri = IF eff.on /\ ls[i].dim THEN eff.bri ELSE ls[i].bri]]

\* the bridge executes PUT {on: {on: v}} for one light
PowerSet(ls, id, v) ==
    [i \in 1..Len(ls) |-> IF ls[i].id = id THEN [ls[i] EXCEPT !.on = v] ELSE ls[i]]

\* the bridge executes PUT {dimming: {brightness: level}} for one light
BrightnessSet(ls, id, level) ==
    [i \in 1..Len(ls) |-> IF ls[i].id = id THEN [ls[i] EXCEPT !.bri = level] ELSE ls[i]]

\* a light with a dimming field; the bridge answers a brightness PUT for any
\* other light with an error
Dimmable(ls, id) == \E i \in 1..Len(ls) : ls[i].id = id /\ ls[i].dim

Outcomes == {"ok", "http", "net"}

\* ------------------------------------------- continuations of the handlers
\* the catch block of doActivate that sets no message
FailedToActivate_silent(outcome) == ""

\* `Failed to activate: ${err.message ?? err}`
FailedToActivate(outcome) == "Failed to activate: " \o ErrorText(outcome)

\* doActivate: `await activateScene(...)` settles. activateScene throws on a
\* transport error and on a non-2xx answer
RecallSettle(t, outcome) ==
    /\ ~exited
    /\ t \in InFlight /\ t.kind = "activate" /\ t.pc = "recall"
    /\ IF outcome = "ok"
       THEN /\ \E eff \in RecallEffects : bridgeLights' = Recalled(bridgeLights, eff)
            /\ tasks' = Replaced(t, [t EXCEPT !.pc = "settle"])
            /\ message' = message
       ELSE /\ message' = FailedToActivate(outcome)
            /\ tasks' = Finished(t)
            /\ bridgeLights' = bridgeLights
    /\ UNCHANGED <<scenes, loading, error, selected, setMode, brightnessMode,
                   brightness, lights, lightsOn>>
    /\ UNCHANGED <<sceneData, smartSceneData, fetches, lightData, timers, exited, keys>>
    /\ UNCHANGED otherVars

\* doActivate: the 200 ms wait ends and the light listing is requested
SettleElapsed(t) ==
    /\ ~exited
    /\ t \in InFlight /\ t.kind = "activate" /\ t.pc = "settle"
    /\ tasks' = Replaced(t, [t EXCEPT !.pc = "reload"])
    /\ UNCHANGED uiVars
    /\ UNCHANGED <<sceneData, smartSceneData, bridgeLights, fetches, lightData,
                   timers, exited, keys>>
    /\ UNCHANGED otherVars

\* the reload of doActivate without setLights(lightsArray)
ActivateReloadSettle_keepsRoster(t, outcome) ==
    /\ ~exited
    /\ t \in InFlight /\ t.kind = "activate" /\ t.pc = "reload"
    /\ tasks' = Finished(t)
    /\ IF outcome = "ok"
       THEN /\ lights' = lights
            /\ lightsOn' = LightsOnAfter(bridgeLights, lightsOn)
            /\ brightness' = BrightnessAfter(bridgeLights, brightness)
            /\ message' = message
       ELSE /\ message' = FailedToActivate(outcome)
            /\ UNCHANGED <<lights, lightsOn, brightness>>
    /\ UNCHANGED <<scenes, loading, error, selected, setMode, brightnessMode>>
    /\ UNCHANGED <<sceneData, smartSceneData, bridgeLights, fetches, lightData,
                   timers, exited, keys>>
    /\ UNCHANGED otherVars

\* doActivate: `await fetchJson("/clip/v2/resource/light")` settles
ActivateReloadSettle(t, outcome) ==
    /\ ~exited
    /\ t \in InFlight /\ t.kind = "activate" /\ t.pc = "reload"
    /\ tasks' = Finished(t)
    /\ IF outcome = "ok"
       THEN /\ lights' = bridgeLights
            /\ lightsOn' = LightsOnAfter(bridgeLights, lightsOn)
            /\ brightness' = BrightnessAfter(bridgeLights, brightness)
            /\ message' = message
       ELSE /\ message' = FailedToActivate(outcome)
            /\ UNCHANGED <<lights, lightsOn, brightness>>
    /\ UNCHANGED <<scenes, loading, error, selected, setMode, brightnessMode>>
    /\ UNCHANGED <<sceneData, smartSceneData, bridgeLights, fetches, lightData,
                   timers, exited, keys>>
    /\ UNCHANGED otherVars

\* toggleAllLights: `await fetchJson("/clip/v2/resource/light")` settles
ToggleReloadSettle(t, outcome) ==
    /\ ~exited
    /\ t \in InFlight /\ t.kind = "toggle" /\ t.pc = "reload"
    /\ tasks' = Finished(t)
    /\ IF outcome = "ok"
       THEN /\ lights' = bridgeLights
            /\ lightsOn' = t.target
            /\ message' = IF t.target THEN "On" ELSE "Off"
            /\ timers' = timers + 1
       ELSE /\ message' = "Failed to toggle lights: " \o ErrorText(outcome)
            /\ UNCHANGED <<lights, lightsOn, timers>>
    /\ UNCHANGED <<scenes, loading, error, selected, setMode, brightnessMode, brightness>>
    /\ UNCHANGED <<sceneData, smartSceneData, bridgeLights, fetches, lightData, exited, keys>>
    /\ UNCHANGED otherVars

\* setTimeout(() => setMessage(""), 2000) fires
TimerFire ==
    /\ ~exited
    /\ timers > 0
    /\ timers' = timers - 1
    /\ message' = ""
    /\ UNCHANGED <<scenes, loading, error, selected, setMode, brightnessMode,
                   brightness, lights, lightsOn>>
    /\ UNCHANGED <<sceneData, smartSceneData, bridgeLights, fetches, lightData,
                   tasks, exited, keys>>
    /\ UNCHANGED otherVars

\* doSetBrightness / toggleAllLights: one fetch of the Promise.all settles.
\* fetch resolves on any answer, 2xx or not, and rejects on a transport error;
\* Promise.all resolves when every fetch has resolved and rejects with the
\* first rejection, after which the catch block runs and the PUTs already
\* sent are still executed by the bridge as they arrive
PutSettle(t, i, outcome) ==
    /\ ~exited
    /\ t \in InFlight /\ t.pc \in {"puts", "abandoned"}
    /\ i \in DOMAIN t.calls /\ t.calls[i].st = "pending"
    /\ (outcome = "ok" /\ t.kind = "bright") => Dimmable(bridgeLights, t.calls[i].id)
    /\ bridgeLights' =
          IF outcome # "ok" THEN bridgeLights
          ELSE IF t.kind = "toggle" THEN PowerSet(bridgeLights, t.calls[i].id, t.target)
          ELSE BrightnessSet(bridgeLights, t.calls[i].id, t.level)
    /\ LET calls == [t.calls EXCEPT ![i].st = "done"]
           rejected == outcome = "net" /\ t.pc = "puts"
       IN  /\ message' =
                IF ~rejected THEN message
                ELSE IF t.kind = "toggle"
                THEN "Failed to toggle lights: " \o ErrorText(outcome)
                ELSE "Failed to set brightness: " \o ErrorText(outcome)
           /\ tasks' =
                IF rejected \/ t.pc = "abandoned"
                THEN IF AllDone(calls) THEN Finished(t)
                     ELSE Replaced(t, [t EXCEPT !.pc = "abandoned", !.calls = calls])
                ELSE IF ~AllDone(calls) THEN Replaced(t, [t EXCEPT !.calls = calls])
                ELSE IF t.kind = "toggle"
                THEN Replaced(t, [t EXCEPT !.pc = "reload", !.calls = calls])
                ELSE Finished(t)
    /\ UNCHANGED <<scenes, loading, error, selected, setMode, brightnessMode,
                   brightness, lights, lightsOn>>
    /\ UNCHANGED <<sceneData, smartSceneData, fetches, lightData, timers, exited, keys>>
    /\ UNCHANGED otherVars

\* --------------------------------------------------------- specification
Next ==
    \/ \E f \in {"scene", "smart_scene", "light"}, outcome \in Outcomes : FetchSettle(f, outcome)
    \/ \E input \in Inputs : useInput(input)
    \/ \E t \in InFlight, outcome \in Outcomes : RecallSettle(t, outcome)
    \/ \E t \in InFlight : SettleElapsed(t)
    \/ \E t \in InFlight, outcome \in Outcomes : ActivateReloadSettle(t, outcome)
    \/ \E t \in InFlight, outcome \in Outcomes : ToggleReloadSettle(t, outcome)
    \/ \E t \in InFlight, outcome \in Outcomes : \E i \in DOMAIN t.calls : PutSettle(t, i, outcome)
    \/ TimerFire

Spec == Init /\ [][Next]_vars

\* the runs against a bridge with at most one light, in which every request
\* the initial load has sent is answered or fails in the end
FairInit == Init /\ Len(bridgeLights) <= 1

FairSpec ==
    FairInit /\ [][Next]_vars
    /\ WF_vars(\E f \in {"scene", "smart_scene", "light"}, outcome \in Outcomes :
                        FetchSettle(f, outcome))

\* the runs against the bridge with two scenes and a smart scene, without
\* lights or with one light, in which every request the load or a handler has
\* sent is answered or fails in the end, and every timer that was set fires
LiveInit == Init /\ Len(sceneData) = 2 /\ Len(smartSceneData) = 1 /\ Len(bridgeLights) <= 1
                 /\ sceneData[1] = Evening /\ sceneData[2] = Bright

LiveSpec ==
    LiveInit /\ [][Next]_vars
    /\ WF_vars(\E f \in {"scene", "smart_scene", "light"}, outcome \in Outcomes :
                        FetchSettle(f, outcome))
    /\ WF_vars(\E t \in InFlight, outcome \in Outcomes : RecallSettle(t, outcome))
    /\ WF_vars(\E t \in InFlight : SettleElapsed(t))
    /\ WF_vars(\E t \in InFlight, outcome \in Outcomes : ActivateReloadSettle(t, outcome))
    /\ WF_vars(\E t \in InFlight, outcome \in Outcomes : ToggleReloadSettle(t, outcome))
    /\ WF_vars(\E t \in InFlight, outcome \in Outcomes :
                        \E i \in DOMAIN t.calls : PutSettle(t, i, outcome))
    /\ WF_vars(TimerFire)

\* ------------------------------------------- the map callbacks on their own
\* sceneData.data.map(...) of the load applied to one scene resource
MapInit ==
    /\ sceneArg \in SceneInputs /\ mapped = <<>>
    /\ Mounted(Setup(<<>>, <<>>, <<>>)) /\ SetupIdle

\* the callback of regularScenes
MapRegular ==
    /\ mapped = <<>>
    /\ mapped' = RegularScenes(<<sceneArg>>)
    /\ UNCHANGED <<sceneArg, appVars, setupVars>>

\* the callback of smartScenes
MapSmart ==
    /\ mapped = <<>>
    /\ mapped' = SmartScenes(<<sceneArg>>)
    /\ UNCHANGED <<sceneArg, appVars, setupVars>>

MapNext == MapRegular \/ MapSmart

MapSpec == MapInit /\ [][MapNext]_vars

\* ------------------------------------------------------- the setup script
\* text is kept as a sequence of pieces: the two keys, the line feed, and
\* pieces of other text that hold neither a key nor a line feed
KeyIp == "HUE_BRIDGE_IP="

KeyToken == "HUE_API_TOKEN="

LF == "\n"

\* content.includes(key)
includes(content, key) == \E i \in 1..Len(content) : content[i] = key

\* content.endsWith("\n")
endsWithLF(content) == Len(content) > 0 /\ content[Len(content)] = LF

\* content.replace(/KEY=.*/g, `KEY=${value}`): every occurrence of the key and
\* the rest of its line (. matches no line feed) becomes the key and the value
RECURSIVE ReplaceFrom(_, _, _, _)
ReplaceFrom(rest, key, value, inMatch) ==
    IF rest = <<>> THEN <<>>
    ELSE IF Head(rest) = LF THEN <<LF>> \o ReplaceFrom(Tail(rest), key, value, FALSE)
    ELSE IF inMatch THEN ReplaceFrom(Tail(rest), key, value, TRUE)
    ELSE IF Head(rest) = key THEN <<key, value>> \o ReplaceFrom(Tail(rest), key, value, TRUE)
    ELSE <<Head(rest)>> \o ReplaceFrom(Tail(rest), key, value, FALSE)

replace(content, key, value) == ReplaceFrom(content, key, value, FALSE)

\* updateEnvFile(bridgeIp, apiToken): the file it leaves
updateEnvFile(file, ip, apiToken) ==
    LET read == IF file.exists THEN file.content ELSE <<>>
        withIp ==
            IF includes(read, KeyIp)
            THEN replace(read, KeyIp, ip)
            ELSE read \o (IF read # <<>> /\ ~endsWithLF(read) THEN <<LF>> ELSE <<>>)
                      \o <<KeyIp, ip, LF>>
        withToken ==
            IF includes(withIp, KeyToken)
            THEN replace(withIp, KeyToken, apiToken)
            ELSE withIp \o <<KeyToken, apiToken, LF>>
    IN  [exists |-> TRUE, content |-> withToken]

\* the lines a .env file is made of: an address, a token, something else
EnvLines == {<<KeyIp, "10.0.0.1">>, <<KeyToken, "old">>, <<"FOO=1">>}

\* lines joined by line feeds, with or without a line feed after the last
RECURSIVE Joined(_, _)
Joined(lines, lastLF) ==
    IF lines = <<>> THEN <<>>
    ELSE Head(lines) \o (IF Len(lines) > 1 \/ lastLF THEN <<LF>> ELSE <<>>)
                     \o Joined(Tail(lines), lastLF)

\* the .env files the script may find, and no file
EnvFiles ==
    {NoFile} \cup
    {[exists |-> TRUE, content |-> Joined(lines, lastLF)] :
        lines \in SeqsUpTo(EnvLines, MaxLines), lastLF \in BOOLEAN}

\* the addresses discovery may return and the usernames the bridge may issue
Addresses == {"10.0.0.2"}

Tokens == {"abc", "xyz"}

maxAttempts == 3

\* main() is started
MainInit ==
    /\ mainPc = "discover" /\ bridgeIp = "" /\ attempts = 0 /\ username = NoUsername
    /\ authCalls = 0 /\ envFile \in EnvFiles /\ envCalls = <<>>
    /\ Mounted(Setup(<<>>, <<>>, <<>>)) /\ MapIdle

\* await discoverBridge(): an address, or it throws and main exits
Discover(found) ==
    /\ mainPc = "discover"
    /\ IF found = "" THEN mainPc' = "failed" /\ bridgeIp' = bridgeIp
                     ELSE mainPc' = "askName" /\ bridgeIp' = found
    /\ UNCHANGED <<attempts, username, authCalls, envFile, envCalls, appVars, mapVars>>

\* the operator answers a prompt: the device name, the first request to press
\* the link button, the request before a retry
PromptAnswered ==
    /\ mainPc \in {"askName", "askLink", "retryPrompt"}
    /\ mainPc' = IF mainPc = "askName" THEN "askLink" ELSE "authenticate"
    /\ UNCHANGED <<bridgeIp, attempts, username, authCalls, envFile, envCalls, appVars, mapVars>>

\* what authenticate returns or does: a username, the error of type 101, an
\* error of another type, or it throws (not ok, unexpected response, no answer)
AuthResults == {"username", "101", "other", "throws"}

\* the loop with `attempts <= maxAttempts` as its condition
LoopContinues_offByOne(n) == n <= maxAttempts

\* while (attempts < maxAttempts)
LoopContinues(n) == n < maxAttempts

\* one turn of the pairing loop: `await authenticate(bridgeIp, deviceType)`
\* settles and the loop body runs, up to the next await or the end of the loop
Authenticate(result, token) ==
    /\ mainPc = "authenticate"
    /\ authCalls' = authCalls + 1
    /\ IF result = "username"
       THEN username' = token /\ attempts' = attempts /\ mainPc' = "save"
       ELSE IF result = "101"
       THEN /\ attempts' = attempts + 1
            /\ username' = username
            /\ mainPc' = IF LoopContinues(attempts + 1) THEN "retryPrompt" ELSE "failed"
       ELSE UNCHANGED <<attempts, username>> /\ mainPc' = "failed"
    /\ UNCHANGED <<bridgeIp, envFile, envCalls, appVars, mapVars>>

\* updateEnvFile(bridgeIp, username), and main ends
SaveConfig ==
    /\ mainPc = "save"
    /\ envFile' = updateEnvFile(envFile, bridgeIp, username)
    /\ envCalls' = Append(envCalls, <<bridgeIp, username>>)
    /\ mainPc' = "done"
    /\ UNCHANGED <<bridgeIp, attempts, username, authCalls, appVars, mapVars>>

MainNext ==
    \/ \E found \in Addresses \cup {""} : Discover(found)
    \/ PromptAnswered
    \/ \E result \in AuthResults, token \in Tokens : Authenticate(result, token)
    \/ SaveConfig

\* the runs of main() in which discovery and the bridge answer or fail, and
\* the operator answers every prompt
MainSpec == MainInit /\ [][MainNext]_vars /\ WF_vars(MainNext)

\* updateEnvFile on its own: called on a file with an address and a token
EnvInit ==
    /\ mainPc = "idle" /\ bridgeIp = "" /\ attempts = 0 /\ username = NoUsername
    /\ authCalls = 0 /\ envFile \in EnvFiles /\ envCalls = <<>>
    /\ Mounted(Setup(<<>>, <<>>, <<>>)) /\ MapIdle

CallUpdateEnvFile(ip, apiToken) ==
    /\ Len(envCalls) < MaxWrites
    /\ envFile' = updateEnvFile(envFile, ip, apiToken)
    /\ envCalls' = Append(envCalls, <<ip, apiToken>>)
    /\ UNCHANGED <<mainPc, bridgeIp, attempts, username, authCalls, appVars, mapVars>>

EnvNext == \E ip \in Addresses, apiToken \in Tokens : CallUpdateEnvFile(ip, apiToken)

EnvSpec == EnvInit /\ [][EnvNext]_vars

\* ------------------------------------------------------------------ claims
\* C1: the set-mode flag and the brightness-mode flag are never both true;
\* pressing b in normal mode yields brightness mode, and pressing s in
\* brightness mode yields set mode with brightness mode off
C1_ModesExclusive ==
    /\ [](~(setMode /\ brightnessMode))
    /\ [][ /\ (useInput("b") /\ ~setMode /\ ~brightnessMode) => (brightnessMode' /\ ~setMode')
           /\ (useInput("s") /\ brightnessMode) => (setMode' /\ ~brightnessMode') ]_vars

\* one key was pressed and it was b, from normal mode
C1_Witness == keys = 1 /\ brightnessMode /\ ~setMode

\* C2: the selection index is a valid index of a non-empty scene list, and
\* stays 0 while the scene list is empty
C2_SelectionValid ==
    IF Len(scenes) = 0 THEN selected = 0 ELSE selected \in 0..(Len(scenes) - 1)

\* the cursor has been moved down to the last of three scenes
C2_Witness == Len(scenes) = 3 /\ selected = 2 /\ keys >= 2

\* C3: pressing Enter with a non-empty scene list starts an activation of the
\* scene at the selection index, in normal, set and brightness mode alike
C3_EnterActivatesInEveryMode ==
    [][ (useInput("return") /\ Len(scenes) # 0 /\ HasScene(selected) /\ CanStart)
            => tasks' = Started(Activation(scenes[selected + 1])) ]_vars

\* the keys other than q and escape
ActionInputs == Inputs \ {"q", "escape"}

\* C4: once the error value is set, no key press other than quitting changes
\* the mode flags, the selection, the brightness, the roster, the aggregate
\* power or the message, and none starts a bridge call
C4_ErrorBlocksInteraction ==
    [][ (error # NoError /\ \E input \in ActionInputs : useInput(input))
            => (UNCHANGED <<setMode, brightnessMode, selected, brightness, lights,
                            lightsOn, message>> /\ tasks' = tasks) ]_vars

InRange(b) == RatLeq(Num(1), b) /\ RatLeq(b, Num(100))

\* C5: in brightness mode an up-arrow press sets the brightness to
\* min(100, brightness + 1) and a down-arrow press to max(1, brightness - 1),
\* the result lies in [1, 100], and the selection index does not move
C5_BrightnessClamped ==
    [][ brightnessMode =>
          /\ useInput("upArrow") =>
                /\ brightness' = MathMin(Num(100), RatAdd(brightness, Num(1)))
                /\ InRange(brightness') /\ selected' = selected
          /\ useInput("downArrow") =>
                /\ brightness' = MathMax(Num(1), RatAdd(brightness, Num(-1)))
                /\ InRange(brightness') /\ selected' = selected ]_vars

\* after b, two down-arrow presses have each sent the level 1 (both handlers
\* are still in flight): the first lowered the brightness from 2 to 1, the
\* second was stopped at 1
C5_Witness ==
    /\ keys = 3 /\ brightnessMode /\ brightness = Num(1)
    /\ \E t \in InFlight : t.kind = "bright" /\ t.level = Num(1) /\ CopiesIn(t, tasks) = 2

\* C6: pressing o starts one power-set call per light of the roster, all
\* carrying the negation of "some light of the roster is on"; the bridge
\* executes each call with that target; and when the calls and the reload
\* have completed, the aggregate power equals the target
C6_ToggleAll ==
    [][ /\ (\E input \in {"o", "O"} : useInput(input)) =>
              \E tk \in BagToSet(tasks') :
                 /\ tasks' = Started(tk)
                 /\ tk.kind = "toggle"
                 /\ tk.target = ~(\E i \in 1..Len(lights) : lights[i].on)
                 /\ Len(tk.calls) = Len(lights)
                 /\ \A i \in 1..Len(lights) :
                       tk.calls[i] = [id |-> lights[i].id, st |-> "pending"]
        /\ \A t \in InFlight : \A i \in DOMAIN t.calls :
              (t.kind = "toggle" /\ PutSettle(t, i, "ok")) =>
                 \A k \in 1..Len(bridgeLights') :
                    bridgeLights'[k].id = t.calls[i].id => bridgeLights'[k].on = t.target
        /\ \A t \in InFlight :
              ToggleReloadSettle(t, "ok") => (lightsOn' = t.target /\ lights' = bridgeLights)
      ]_vars

\* both lights were on, o was pressed, both calls were executed and the
\* reload completed: every light is off and the aggregate power is false
C6_Witness ==
    /\ message = "Off" /\ ~lightsOn /\ tasks = EmptyBag
    /\ Len(lights) = 2 /\ \A i \in 1..2 : ~lights[i].on

\* C7: whenever no bridge call is in flight (here: after a load that did not
\* fail), the aggregate power flag is true exactly when some light of the
\* roster is on
C7_AggregatePowerDerived ==
    (tasks = EmptyBag /\ ~loading /\ error = NoError) => (lightsOn <=> AnyOn(lights))

Failures == {"http", "net"}

\* a step in which a bridge call fails: a required fetch of the initial load,
\* an activation or the reload after it, a reload after a toggle, or a
\* per-light call of a toggle or of a brightness change whose Promise.all
\* has not yet rejected
FailedCall ==
    \/ \E f \in {"scene", "light"}, o \in Failures : FetchSettle(f, o)
    \/ \E t \in InFlight, o \in Failures :
          \/ RecallSettle(t, o)
          \/ ActivateReloadSettle(t, o)
          \/ ToggleReloadSettle(t, o)
          \/ \E i \in DOMAIN t.calls : t.pc = "puts" /\ PutSettle(t, i, o)

\* C8: every failed bridge call leaves a non-empty status message or the
\* terminal error value (the smart-scene fetch, whose failure the load
\* replaces by an empty list, is not counted)
C8_NoSilentFailure == [][ FailedCall => (message' # "" \/ error' # NoError) ]_vars

Failed(f) == fetches[f] \in Failures

Settled(f) == fetches[f] # "pending"

\* the outcome of the load, in every state
LoadOutcome ==
    /\ loading => (error = NoError /\ ~Failed("scene") /\ ~Failed("light"))
    /\ ~loading => (error # NoError <=> (Failed("scene") \/ Failed("light")))
    /\ (Failed("scene") \/ Failed("light")
          \/ (Settled("scene") /\ Settled("smart_scene") /\ Settled("light"))) => ~loading
    /\ (~loading /\ Failed("smart_scene") /\ ~Failed("scene") /\ ~Failed("light")) =>
          /\ error = NoError
          /\ Len(scenes) = Len(sceneData)
          /\ \A i \in 1..Len(scenes) : scenes[i].type = "scene"
          /\ \A i \in 1..Len(sceneData) : \E j \in 1..Len(scenes) : scenes[j].id = sceneData[i].id

\* C9: the load ends in the error state exactly when the scenes fetch or the
\* lights fetch has failed; a failure of the smart-scenes fetch alone gives
\* the regular scenes and no error; once the outcome is decided the loading
\* flag is false, and it becomes false in the end unless the operator quits
\* first
C9_LoadOutcome == []LoadOutcome /\ <>(~loading \/ exited)

\* the smart-scenes fetch alone failed and the load succeeded with two scenes
C9_Witness ==
    /\ ~loading /\ error = NoError /\ Failed("smart_scene")
    /\ Len(sceneData) = 2 /\ Len(scenes) = 2

\* the smart scenes the bridge returned to the load
ReturnedSmart == IF fetches["smart_scene"] = "ok" THEN smartSceneData ELSE <<>>

\* the scene list has exactly one entry of the given kind for each raw scene
OneEntryEach(raws, kind) ==
    \A i \in 1..Len(raws) :
       /\ Cardinality({j \in 1..Len(scenes) : scenes[j].id = raws[i].id}) = 1
       /\ \A j \in 1..Len(scenes) :
             scenes[j].id = raws[i].id =>
                /\ scenes[j].type = kind
                /\ scenes[j].name = (IF raws[i].name = "" THEN "Untitled" ELSE raws[i].name)

\* C10: after a successful load the scene list has exactly one entry for
\* every regular scene and every smart scene the bridge returned, of kind
\* scene and smart_scene, in non-decreasing order of display name
C10_SceneListSorted ==
    (~loading /\ error = NoError) =>
       /\ Len(scenes) = Len(sceneData) + Len(ReturnedSmart)
       /\ OneEntryEach(sceneData, "scene")
       /\ OneEntryEach(ReturnedSmart, "smart_scene")
       /\ \A i, j \in 1..Len(scenes) :
             i < j => localeCompare(scenes[i].name, scenes[j].name) <= 0

\* the bridge returned Evening before Bright, and a smart scene Dawn: the
\* list is Bright, Dawn, Evening
C10_Witness ==
    /\ ~loading /\ error = NoError
    /\ Len(sceneData) = 2 /\ sceneData[1].name = "Evening" /\ sceneData[2].name = "Bright"
    /\ Len(scenes) = 3
    /\ scenes[1].name = "Bright" /\ scenes[2].type = "smart_scene" /\ scenes[3].name = "Evening"

\* the colours (or no-colour) the samples of a scene convert to: palette
\* colours, palette temperatures, action colours, action temperatures
Converted(scene) ==
    [i \in 1..Len(scene.palette.color) |->
        xyBriToHex(scene.palette.color[i].x, scene.palette.color[i].y, scene.palette.color[i].bri)]
    \o [i \in 1..Len(scene.palette.color_temperature) |->
        mirekToHex(scene.palette.color_temperature[i].mirek)]
    \o [i \in 1..Len(scene.actions) |->
        xyBriToHex(scene.actions[i].x, scene.actions[i].y, scene.actions[i].bri)]
    \o [i \in 1..Len(scene.actions) |-> mirekToHex(scene.actions[i].mirek)]

SameIgnoringCase(a, b) == toLowerCase(a) = toLowerCase(b)

\* the places of c that hold a colour no earlier place holds
FirstSeen(c) ==
    {i \in 1..Len(c) :
        c[i] # NoColor /\ \A j \in 1..(i - 1) : ~SameIgnoringCase(c[j], c[i])}

\* how many places of F are at or before i
Rank(F, i) == Cardinality({j \in F : j <= i})

\* C11: the colours extractColors returns for a scene are the first
\* occurrences of the distinct (ignoring case) colours its samples convert to,
\* in the order palette colours, palette temperatures, action colours, action
\* temperatures, without the samples that convert to no colour, cut after the
\* sixth; the result has at most 6 entries, no two of them equal ignoring case
C11_ExtractColorsDedupes ==
    \A e \in 1..Len(mapped) :
       mapped[e].type = "scene" =>
          LET c == Converted(sceneArg)
              first == FirstSeen(c)
              r == mapped[e].colors
          IN  /\ Len(r) <= 6
              /\ \A a, b \in 1..Len(r) : a # b => ~SameIgnoringCase(r[a], r[b])
              /\ first # {} =>
                    /\ Len(r) = (IF Cardinality(first) < 6 THEN Cardinality(first) ELSE 6)
                    /\ \A i \in first : Rank(first, i) <= 6 => r[Rank(first, i)] = c[i]

\* a scene whose samples convert to more than 6 distinct colours, with a
\* repeated colour or a sample without colour before the sixth of them
C11_Witness ==
    /\ Len(mapped) = 1 /\ mapped[1].type = "scene" /\ Len(mapped[1].colors) = 6
    /\ LET c == Converted(sceneArg)
       IN  /\ Cardinality(FirstSeen(c)) > 6
           /\ \E i \in 1..Len(c) :
                 i \notin FirstSeen(c) /\ \E k \in FirstSeen(c) : i < k /\ Rank(FirstSeen(c), k) <= 6

\* ["#444444"]
NeutralGray == <<<<"#", "4", "4", "4", "4", "4", "4">>>>

\* no sample of the scene converts to a colour
NoneConverts(scene) == \A i \in 1..Len(Converted(scene)) : Converted(scene)[i] = NoColor

\* C12 as stated: every list entry has between 1 and 6 colours; a regular
\* scene's colours are exactly ["#444444"] when and only when none of its
\* samples converts to a colour; a smart scene carries the two placeholder
\* colours
C12_FallbackIffNoColor ==
    \A e \in 1..Len(mapped) :
       /\ Len(mapped[e].colors) \in 1..6
       /\ mapped[e].type = "scene" => (mapped[e].colors = NeutralGray <=> NoneConverts(sceneArg))
       /\ mapped[e].type = "smart_scene" => mapped[e].colors = Placeholder

\* C12, amended: every list entry has between 1 and 6 colours; a regular
\* scene's colours are exactly ["#444444"] when none of its samples converts
\* to a colour, and otherwise are all colours its samples convert to (among
\* them, possibly, #444444 itself); a smart scene carries the two placeholder
\* colours
C12_PreviewColors ==
    \A e \in 1..Len(mapped) :
       /\ Len(mapped[e].colors) \in 1..6
       /\ mapped[e].type = "scene" =>
             IF NoneConverts(sceneArg)
             THEN mapped[e].colors = NeutralGray
             ELSE \A k \in 1..Len(mapped[e].colors) :
                     \E i \in 1..Len(Converted(sceneArg)) :
                        Converted(sceneArg)[i] # NoColor /\ mapped[e].colors[k] = Converted(sceneArg)[i]
       /\ mapped[e].type = "smart_scene" => mapped[e].colors = Placeholder

\* a regular scene with samples, none of which converts, was given the fallback
C12_Witness ==
    /\ Len(mapped) = 1 /\ mapped[1].type = "scene" /\ mapped[1].colors = NeutralGray
    /\ Len(Converted(sceneArg)) > 0 /\ NoneConverts(sceneArg)

\* C13: when the activation call of doActivate fails, or the light listing
\* after it, the message becomes the failure text, which is not empty, and the
\* selection, the mode flags, the roster, the brightness and the aggregate
\* power are left as they were
C13_FailedActivationKeepsState ==
    [][ \A t \in InFlight, o \in Failures :
           (RecallSettle(t, o) \/ ActivateReloadSettle(t, o)) =>
              /\ message' # ""
              /\ message' = "Failed to activate: " \o ErrorText(o)
              /\ UNCHANGED <<selected, setMode, brightnessMode, lights, brightness, lightsOn>>
      ]_vars

\* in set mode the cursor was moved to the second scene, whose activation
\* was answered with an error
C13_Witness ==
    /\ message = "Failed to activate: HTTP 500: error"
    /\ setMode /\ selected = 1 /\ tasks = EmptyBag

\* a handler that ends by requesting the light listing is in flight
Refreshing(bag) == \E u \in BagToSet(bag) : u.kind \in {"activate", "toggle"}

\* the only call of a brightness change has succeeded: its handler ends
BrightnessChanged(t) ==
    t.kind = "bright" /\ t.pc = "puts" /\ Len(t.calls) = 1 /\ PutSettle(t, 1, "ok")

\* C14 as stated: when, after a load that did not fail, the handler of an activation, of a
\* brightness change or of a toggle ends and its calls have succeeded, the
\* roster is the light listing of the bridge, or a handler that will fetch
\* the listing is still in flight
C14_RosterRefreshedAfterEveryAction ==
    [][ \A t \in InFlight :
           (~loading /\ error = NoError
                     /\ (\/ ActivateReloadSettle(t, "ok")
                         \/ ToggleReloadSettle(t, "ok")
                         \/ BrightnessChanged(t)))
              => (lights' = bridgeLights' \/ Refreshing(tasks')) ]_vars

\* the last call of a toggle is answered
LastPutAnswered(t) ==
    /\ t.kind = "toggle" /\ t.pc = "puts"
    /\ \E i \in DOMAIN t.calls, o \in {"ok", "http"} :
          /\ PutSettle(t, i, o)
          /\ \A k \in DOMAIN t.calls : k # i => t.calls[k].st = "done"

\* C14, amended: after a scene activation or a power toggle whose calls
\* succeed the handler requests the light listing (an activation after its
\* 200 ms wait), the roster becomes the listing the bridge returns, and the
\* handler ends in the end; a brightness change requests no listing
C14_RosterRefreshedAfterActivationAndToggle ==
    /\ [][ \A t \in InFlight :
              /\ RecallSettle(t, "ok") => BagIn([t EXCEPT !.pc = "settle"], tasks')
              /\ SettleElapsed(t) => BagIn([t EXCEPT !.pc = "reload"], tasks')
              /\ LastPutAnswered(t) =>
                    \E u \in BagToSet(tasks') : u.kind = "toggle" /\ u.pc = "reload"
              /\ (ActivateReloadSettle(t, "ok") \/ ToggleReloadSettle(t, "ok"))
                    => lights' = bridgeLights
              /\ BrightnessChanged(t) => (lights' = lights /\ ~Refreshing(tasks' (-) tasks))
          ]_vars
    /\ (Refreshing(tasks) ~> (~Refreshing(tasks) \/ exited))

\* an activation has turned the light on at brightness 40 and the roster
\* shows it
C14_Witness ==
    /\ tasks = EmptyBag /\ Len(lights) = 1 /\ lights = bridgeLights
    /\ lights[1].on /\ lights[1].bri = Num(40) /\ brightness = Num(40)

\* C15: the pairing loop sends at most 3 authenticate requests and main
\* ends; every request but the first follows an answer with error 101; an
\* answer with a username ends the loop and no request follows it; any other
\* error, or a throw, ends main in failure at once; the configuration file
\* is written only once a username was obtained, with that username
C15_PairingLoopBounded ==
    /\ [](authCalls <= 3)
    /\ [](mainPc \in {"authenticate", "retryPrompt"} => authCalls = attempts)
    /\ [](envCalls # <<>> => (username # NoUsername /\ envCalls = <<<<bridgeIp, username>>>>))
    /\ [][ /\ \A result \in AuthResults, token \in Tokens :
                 Authenticate(result, token) =>
                    /\ result = "username" => (mainPc' = "save" /\ username' = token)
                    /\ result = "101" => mainPc' \in {"retryPrompt", "failed"}
                    /\ result \in {"other", "throws"} => mainPc' = "failed"
           /\ authCalls' # authCalls => username = NoUsername
           /\ envFile' # envFile => username # NoUsername
           /\ mainPc = "failed" => mainPc' = "failed" ]_vars
    /\ <>(mainPc \in {"done", "failed"})

\* the link button was pressed before the third request: two answers with
\* error 101, then a username, and the file was written
C15_Witness ==
    /\ mainPc = "done" /\ authCalls = 3 /\ attempts = 2
    /\ username = "abc" /\ envFile.exists

\* the lines of a text: the pieces between line feeds
RECURSIVE SplitFrom(_, _)
SplitFrom(rest, line) ==
    IF rest = <<>> THEN (IF line = <<>> THEN <<>> ELSE <<line>>)
    ELSE IF Head(rest) = LF THEN <<line>> \o SplitFrom(Tail(rest), <<>>)
    ELSE SplitFrom(Tail(rest), Append(line, Head(rest)))

Lines(content) == SplitFrom(content, <<>>)

HasNoKey(line) == ~includes(line, KeyIp) /\ ~includes(line, KeyToken)

\* the text has a line `key=value`, and no other line with that key
HoldsKey(content, key, value) ==
    /\ \E i \in 1..Len(Lines(content)) : Lines(content)[i] = <<key, value>>
    /\ \A i \in 1..Len(Lines(content)) :
          includes(Lines(content)[i], key) => Lines(content)[i] = <<key, value>>

\* C16: a call of updateEnvFile leaves a file that holds the address key and
\* the token key with the given values and whose other lines are those of
\* the file before, and a second call with the same address and token leaves
\* the file as the first call left it
C16_UpdateEnvFileIdempotent ==
    [][ \A ip \in Addresses, apiToken \in Tokens :
           CallUpdateEnvFile(ip, apiToken) =>
              /\ envFile'.exists
              /\ HoldsKey(envFile'.content, KeyIp, ip)
              /\ HoldsKey(envFile'.content, KeyToken, apiToken)
              /\ SelectSeq(Lines(envFile'.content), HasNoKey)
                    = SelectSeq(Lines(envFile.content), HasNoKey)
              /\ (envCalls # <<>> /\ envCalls[Len(envCalls)] = <<ip, apiToken>>)
                    => envFile' = envFile ]_vars

\* the activation handlers a step has started
StartedActivations == {t \in BagToSet(tasks') : t.kind = "activate" /\ ~BagIn(t, tasks)}

\* C17: outside brightness mode an arrow press moves the selection to the
\* clamped neighbour; in set mode it sends the activation request of the
\* scene at the new selection, when the list has one there, and outside set
\* mode it starts no handler; no arrow press in any mode starts an activation
\* of another scene than the one at the new selection
C17_SetModeArrowActivates ==
    [][ \A input \in {"upArrow", "downArrow"} :
           useInput(input) =>
              /\ ~brightnessMode =>
                    /\ selected' = IF input = "upArrow"
                                   THEN (IF selected = 0 THEN 0 ELSE selected - 1)
                                   ELSE (IF selected + 1 < Len(scenes) THEN selected + 1
                                         ELSE IF Len(scenes) = 0 THEN 0 ELSE Len(scenes) - 1)
                    /\ (setMode /\ selected' + 1 \in DOMAIN scenes) =>
                          LET scene == scenes[selected' + 1]
                          IN  tasks' = tasks (+) SetToBag({
                                 Task("activate", "recall",
                                      activateScene(scene.id, scene.type), Num(0), FALSE, <<>>)})
                    /\ ~setMode => tasks' = tasks
              /\ \A t \in StartedActivations :
                    /\ selected' + 1 \in DOMAIN scenes
                    /\ t.request.id = scenes[selected' + 1].id
      ]_vars

\* s, then the down arrow: the request for the second scene of the list is
\* in flight and the cursor is on that scene
C17_Witness ==
    /\ keys = 2 /\ setMode /\ selected = 1 /\ Len(scenes) >= 2
    /\ \E t \in InFlight : t.kind = "activate" /\ t.pc = "recall"
                           /\ t.request.id = scenes[2].id

\* C18: in brightness mode an arrow press sets the brightness to the target
\* clamped to [1, 100] at once and starts one handler that sends one
\* brightness call with that level to every light of the roster, in the
\* order of the roster (no call over an empty roster); whatever the answer
\* to such a call, success, HTTP error or transport error, the brightness
\* stays as it is, and a call that succeeds sets the light to that level
C18_OptimisticBrightness ==
    [][ /\ \A input \in {"upArrow", "downArrow"} :
             (brightnessMode /\ useInput(input)) =>
                LET step == IF input = "upArrow" THEN Num(1) ELSE Num(-1)
                    target == MathMax(Num(1), MathMin(Num(100), RatAdd(brightness, step)))
                IN  /\ brightness' = target
                    /\ IF lights = <<>> THEN tasks' = tasks
                       ELSE \E t \in BagToSet(tasks') :
                               /\ tasks' = tasks (+) SetToBag({t})
                               /\ t.kind = "bright" /\ t.level = target
                               /\ Len(t.calls) = Len(lights)
                               /\ \A i \in DOMAIN lights :
                                     t.calls[i] = [id |-> lights[i].id, st |-> "pending"]
        /\ \A t \in InFlight, o \in Outcomes : \A i \in DOMAIN t.calls :
             (t.kind = "bright" /\ PutSettle(t, i, o)) =>
                /\ brightness' = brightness
                /\ o = "ok" => \E k \in DOMAIN bridgeLights' :
                                  /\ bridgeLights'[k].id = t.calls[i].id
                                  /\ bridgeLights'[k].bri = t.level
      ]_vars

\* b, then the up arrow over the roster of two lights: the brightness went
\* from the average 51 to 52, a call has failed, the handler has ended and
\* the brightness is still 52
C18_Witness ==
    /\ keys = 2 /\ brightnessMode /\ Len(lights) = 2 /\ tasks = EmptyBag
    /\ brightness = Num(52)
    /\ message = "Failed to set brightness: fetch failed"

\* C19: no key press takes a handler in flight away, and when the light
\* listing of an activation arrives it is applied whatever the mode, the
\* selection and the brightness have become since the activation started:
\* the roster becomes the listing, the aggregate power becomes "some light
\* is on" (over a listing that is not empty) and the brightness becomes the
\* average over the lights that are on (when there is one)
C19_StaleRefreshApplied ==
    [][ /\ \A input \in Inputs : useInput(input) => tasks \sqsubseteq tasks'
        /\ \A t \in InFlight :
             ActivateReloadSettle(t, "ok") =>
                LET onLights == SelectSeq(bridgeLights, IsOn)
                IN  /\ lights' = bridgeLights
                    /\ lightsOn' = IF bridgeLights = <<>> THEN lightsOn
                                   ELSE \E i \in DOMAIN bridgeLights : bridgeLights[i].on
                    /\ brightness' = IF onLights = <<>> THEN brightness
                                     ELSE RatDiv(SumBrightness(onLights), Len(onLights))
      ]_vars

\* return, b, up arrow: the up arrow raised the brightness from 2 to 3 while
\* the activation started by return was waiting for its light listing; the
\* listing has arrived since and the brightness is the average 40 it gave,
\* while the call that carries the level 3 is still on its way
C19_Witness ==
    /\ keys = 3 /\ brightnessMode /\ brightness = Num(40)
    /\ \A t \in InFlight : t.kind = "bright"
    /\ \E t \in InFlight : t.level = Num(3) /\ t.pc = "puts" /\ t.calls[1].st = "pending"

\* a key press that is a meaningful action: a mode toggle, a power toggle, a
\* brightness change, a move of the selection, an activation
Meaningful(input) ==
    /\ useInput(input)
    /\ \/ input \in {"s", "S", "b", "B", "o", "O"}
       \/ brightnessMode /\ input \in {"upArrow", "downArrow"}
       \/ ~brightnessMode /\ input \in {"upArrow", "downArrow"} /\ selected' # selected
       \/ ~brightnessMode /\ input = "return" /\ Len(scenes) # 0

\* C20: every message is transient: once the load has succeeded, a message
\* that is displayed with no timer pending to clear it, whichever handler
\* has set it, is cleared by the next meaningful action
C20_StatusMessageTransient ==
    [][ (/\ ~loading /\ error = NoError
         /\ message # "" /\ timers = 0
         /\ \E input \in Inputs : Meaningful(input))
            => message' = "" ]_vars

\* the messages a successful toggle sets
ToggleMessages == {"On", "Off"}

\* C21: the timer of a successful toggle clears only the message that
\* toggle has set: when it fires while a message written since by another
\* handler is displayed (a failed activation, a failed brightness change, a
\* failed toggle) once the load has succeeded, that message stays displayed
C21_TimerClearsOwnMessageOnly ==
    [][ (/\ ~loading /\ error = NoError
         /\ TimerFire /\ message # "" /\ message \notin ToggleMessages)
            => message' = message ]_vars

====
